---- MODULE Spec2Model ----
(***************************************************************************)
(* Model of the Progression & Reward Engine of the habit tracker, as it is *)
(* wired in src/habit-tracker/src/components/Dashboard.js.                 *)
(*                                                                         *)
(* The Dashboard component reads two React contexts (HabitContext: the     *)
(* ledger `progress`, EventContext: the date-keyed task store `events`),   *)
(* keeps its own React state (totalXP, leaderboard, streak) and runs       *)
(* passive effects after each commit.  React flushes the passive effects   *)
(* of a commit before it starts the next update, so handlers and timers    *)
(* are enabled only when no effect is pending.                             *)
(***************************************************************************)
EXTENDS Integers, Sequences, FiniteSets, TLC

VARIABLES
    progress,             \* HabitContext.progress: category-id -> points
    events,               \* EventContext.events: date-key -> list of tasks
    today,                \* the calendar day `new Date()` reports
    viewDay,              \* todayKey of the last render (Dashboard.js:751)
    calls,                \* handleTaskCompletion invocations in flight
    totalXP,              \* useState(calculateTotalXP()) (Dashboard.js:581)
    leaderboard,          \* useState([]) (Dashboard.js:562)
    fetchState,           \* the promise of fakeFetchLeaderboardData
    pending,              \* passive effects scheduled by the last commit
    user,                 \* useAuth().user
    streak,               \* useState(0), set from getStreak() on mount
    ranked,               \* the sortedLeaderboard of the last ranking
    session,              \* the quiz session of the reward wheel
    wheelStore,           \* persisted wheelShownToday, per date-key
    achievements,         \* earned flags of the last evaluation (592-597)
    store,                \* the LocalData collection behind the storage API
    response              \* the last response of the storage API

vars == <<progress, events, today, viewDay, calls, totalXP, leaderboard,
          fetchState, pending, user, streak, ranked, session, wheelStore,
          achievements, store, response>>

dashVars == <<progress, events, today, viewDay, calls, totalXP,
              leaderboard, fetchState, pending, user, streak>>

wheelVars == <<session, wheelStore>>

auxVars == <<achievements, store, response>>

otherVars == <<ranked, session, wheelStore, achievements, store, response>>

----------------------------------------------------------------------------
(* Bounds *)

MaxDay == 2
MaxClock == 2
MaxTasks == 2
MaxCalls == 1
MaxXP == 110

(* Program constants *)

TaskXP == 10
MilestoneXP == 100
HabitMasterCount == 3
FirstWeekStreak == 7

Days == 1..MaxDay
HabitCats == {"addiction", "fitness"}
Cats == HabitCats \cup {"tasks"}
Deltas == {50}
Titles == {"a"}
NoUser == "null"
Me == "me"
Streaks == {0, FirstWeekStreak}
NoSession ==
    [state |-> "none", roundIndex |-> 0, wheelShownThisRound |-> FALSE,
     wheelShownToday |-> FALSE]
NoResponse == [status |-> 0]

----------------------------------------------------------------------------
(* Pure helpers *)

Get(p, c) == IF c \in DOMAIN p THEN p[c] ELSE 0

RECURSIVE SumOver(_, _)
SumOver(p, S) ==
    IF S = {} THEN 0
    ELSE LET c == CHOOSE x \in S : TRUE IN p[c] + SumOver(p, S \ {c})

\* Object.values(progress).reduce((sum, p) => sum + p, 0)
progressXP(p) == SumOver(p, DOMAIN p)

RECURSIVE CompletedCount(_)
\* tasks.filter(task => task.completed).length
CompletedCount(ts) ==
    IF ts = <<>> THEN 0
    ELSE (IF Head(ts).completed THEN 1 ELSE 0) + CompletedCount(Tail(ts))

\* const todayKey = ...; const todayTasks = events[todayKey] || []
tasksOfDay(ev, d) == ev[d]

calculateTotalXP(p, ev, d) ==
    progressXP(p) + CompletedCount(tasksOfDay(ev, d)) * TaskXP

RECURSIVE CompletedAllDays(_, _)
CompletedAllDays(ev, D) ==
    IF D = {} THEN 0
    ELSE LET d == CHOOSE x \in D : TRUE
         IN CompletedCount(ev[d]) + CompletedAllDays(ev, D \ {d})

RECURSIVE TaskTotal(_, _)
TaskTotal(ev, D) ==
    IF D = {} THEN 0
    ELSE LET d == CHOOSE x \in D : TRUE
         IN Len(ev[d]) + TaskTotal(ev, D \ {d})

\* Math.floor(totalXP / 100) + 1 and totalXP % 100
currentLevelRounded == ((totalXP + 50) \div 100) + 1

currentLevel == (totalXP \div 100) + 1
levelProgress == totalXP % 100

----------------------------------------------------------------------------
(* HabitContext and EventContext operations (called by the Dashboard) *)

\* updateProgress(category, delta): increases the category's running total
updateProgress(p, c, d) ==
    [x \in DOMAIN p \cup {c} |-> IF x = c THEN Get(p, c) + d ELSE p[x]]

\* addEvent(dateKey, task): appends the task to the date's list
addEvent(ev, d, t) == [ev EXCEPT ![d] = Append(@, t)]

\* toggleEventCompletion(dateKey, taskId, completed): sets the flag
toggleEventCompletion(ev, d, id, completed) ==
    [ev EXCEPT ![d] = [i \in DOMAIN @ |->
        IF @[i].id = id THEN [@[i] EXCEPT !.completed = completed] ELSE @[i]]]

\* updateEvent(dateKey, taskId, patch): merges the patch into the task
updateEventEditing(ev, d, id, e) ==
    [ev EXCEPT ![d] = [i \in DOMAIN @ |->
        IF @[i].id = id THEN [@[i] EXCEPT !.isEditing = e] ELSE @[i]]]

updateEventTitle(ev, d, id, t) ==
    [ev EXCEPT ![d] = [i \in DOMAIN @ |->
        IF @[i].id = id THEN [@[i] EXCEPT !.title = t] ELSE @[i]]]

\* deleteEvent(dateKey, taskId): removes the entry
deleteEvent(ev, d, id) ==
    [ev EXCEPT ![d] = SelectSeq(@, LAMBDA t : t.id # id)]

----------------------------------------------------------------------------
(* Leaderboard *)

\* leaderboard.some(entry => entry.name === user.name)
HasEntry(lb, name) == \E i \in DOMAIN lb : lb[i].name = name

\* the self-entry effect: append once, never refresh
upsertSelfRefresh(lb, u, xp) ==
    IF u = NoUser THEN lb
    ELSE IF HasEntry(lb, u)
         THEN [i \in DOMAIN lb |->
                 IF lb[i].name = u THEN [name |-> u, xp |-> xp] ELSE lb[i]]
         ELSE Append(lb, [name |-> u, xp |-> xp])

upsertSelfAlways(lb, u, xp) ==
    IF u # NoUser THEN Append(lb, [name |-> u, xp |-> xp]) ELSE lb

upsertSelf(lb, u, xp) ==
    IF u # NoUser /\ ~HasEntry(lb, u)
    THEN Append(lb, [name |-> u, xp |-> xp])
    ELSE lb

\* fakeFetchLeaderboardData resolves with []
fakeFetchLeaderboardData == <<>>

\* [...leaderboard].sort((a, b) => b.xp - a.xp): Array.prototype.sort is
\* stable; each entry is placed behind the entries that do not sort after it
InsertAt(s, k, e) ==
    [i \in 1..(Len(s) + 1) |->
        IF i < k THEN s[i] ELSE IF i = k THEN e ELSE s[i - 1]]

compareXp(a, b) == b.xp - a.xp

insertBeforeTies(s, e) ==
    LET later == {i \in DOMAIN s : compareXp(s[i], e) >= 0}
        k == IF later = {} THEN Len(s) + 1
             ELSE CHOOSE i \in later : \A j \in later : i <= j
    IN InsertAt(s, k, e)

insertSorted(s, e) ==
    LET later == {i \in DOMAIN s : compareXp(s[i], e) > 0}
        k == IF later = {} THEN Len(s) + 1
             ELSE CHOOSE i \in later : \A j \in later : i <= j
    IN InsertAt(s, k, e)

RECURSIVE sortedLeaderboard(_)
sortedLeaderboard(lb) ==
    IF lb = <<>> THEN <<>>
    ELSE insertSorted(sortedLeaderboard(SubSeq(lb, 1, Len(lb) - 1)),
                      lb[Len(lb)])

----------------------------------------------------------------------------
(* Achievements (Dashboard.js:592-597) *)

AchievementIds == 1..4

habitMasterNonzero(p) ==
    Cardinality({c \in DOMAIN p : p[c] # 0}) >= HabitMasterCount

habitMaster(p) == Cardinality(DOMAIN p) >= HabitMasterCount

milestoneStrict(xp) == xp > MilestoneXP

milestone(xp) == xp >= MilestoneXP

firstWeekStrict(s) == s > FirstWeekStreak

firstWeek(s) == s >= FirstWeekStreak

earned(a, s, xp, p) ==
    CASE a = 1 -> firstWeek(s)
      [] a = 2 -> milestone(xp)
      [] a = 3 -> habitMaster(p)
      [] a = 4 -> FALSE

Earned(a) == earned(a, streak, totalXP, progress)

\* nothing evaluated, nothing stored, no request answered yet
InitAux ==
    /\ achievements = [a \in AchievementIds |-> FALSE]
    /\ store = {}
    /\ response = NoResponse

----------------------------------------------------------------------------
(* Dashboard: initial state (after the first commit and the mount effect) *)

NewTask(id, title) ==
    [id |-> id, title |-> title, completed |-> FALSE, isEditing |-> FALSE]

\* HabitContext starts with the habit categories; a category may hold 0
InitLedger == [c \in HabitCats |-> IF c = "fitness" THEN 50 ELSE 0]

InitDash ==
    /\ progress = InitLedger
    /\ events = [d \in Days |-> <<>>]
    /\ today = 1
    /\ viewDay = 1
    /\ calls = <<>>
    /\ totalXP = calculateTotalXP(progress, events, today)
    /\ leaderboard = <<>>
    /\ fetchState = "pending"
    /\ pending = {"self"}
    /\ user \in {NoUser, Me}
    /\ streak \in Streaks

Settled == pending = {}

\* a commit caused by a change of `progress` or `events`: calculateTotalXP
\* gets a new identity, so the totalXP effect is scheduled
CommitData == /\ pending' = {"xp"}
              /\ viewDay' = today

----------------------------------------------------------------------------
(* Environment: the calendar *)

DayChange ==
    /\ today < MaxDay
    /\ today' = today + 1
    /\ UNCHANGED <<progress, events, viewDay, calls, totalXP,
                   leaderboard, fetchState, pending, user, streak>>
    /\ UNCHANGED otherVars

----------------------------------------------------------------------------
(* Ledger credits from the rest of the application *)

\* XP still to be credited by the handleTaskCompletion calls in flight
RECURSIVE InFlightXP(_)
InFlightXP(cs) ==
    IF cs = <<>> THEN 0
    ELSE (IF Head(cs).completed THEN TaskXP ELSE 0) + InFlightXP(Tail(cs))

Room(d) == progressXP(progress) + InFlightXP(calls) + d <= MaxXP

addPoints(c, d) ==
    /\ Settled
    /\ d > 0
    /\ Room(d)
    /\ progress' = updateProgress(progress, c, d)
    /\ CommitData
    /\ UNCHANGED <<events, today, calls, totalXP, leaderboard,
                   fetchState, user, streak>>
    /\ UNCHANGED otherVars

----------------------------------------------------------------------------
(* Task handlers of the Dashboard *)

RemoveAt(s, k) == [i \in 1..(Len(s) - 1) |-> IF i < k THEN s[i] ELSE s[i + 1]]

\* the task id is Date.now(): the clock reports the millisecond of the last
\* id again, or the next one
LastId(ev) ==
    LET ids == {0} \cup UNION {{ev[d][i].id : i \in DOMAIN ev[d]} : d \in Days}
    IN CHOOSE m \in ids : \A x \in ids : x <= m

\* handleKeyPress: Enter with a non-blank title
handleKeyPress(now, title) ==
    /\ Settled
    /\ TaskTotal(events, Days) < MaxTasks
    /\ now \in {LastId(events), LastId(events) + 1}
    /\ events' = addEvent(events, today, NewTask(now, title))
    /\ CommitData
    /\ UNCHANGED <<progress, today, calls, totalXP, leaderboard,
                   fetchState, user, streak>>
    /\ UNCHANGED otherVars

\* TaskCheckbox onClick: handleTaskCompletion(task.id, !task.completed) runs
\* up to its first await; the task is the one of the last render
TaskCheckboxClickUpTo(i, n) ==
    /\ Settled
    /\ i \in DOMAIN events[viewDay]
    /\ Len(calls) < n
    /\ LET task == events[viewDay][i]
       IN /\ (~task.completed) => Room(TaskXP)
          /\ calls' = Append(calls, [date |-> today, id |-> task.id,
                                     completed |-> ~task.completed,
                                     pc |-> "toggle"])
    /\ UNCHANGED <<progress, events, today, viewDay, totalXP,
                   leaderboard, fetchState, pending, user, streak>>
    /\ UNCHANGED otherVars

TaskCheckboxClick(i) == TaskCheckboxClickUpTo(i, MaxCalls)

\* if (completed) { await updateProgress('tasks', 10) }
handleCreditAlways(p, completed) == updateProgress(p, "tasks", TaskXP)

handleCreditRetract(p, completed) ==
    IF completed THEN updateProgress(p, "tasks", TaskXP)
    ELSE updateProgress(p, "tasks", 0 - TaskXP)

handleCredit(p, completed) ==
    IF completed THEN updateProgress(p, "tasks", TaskXP) ELSE p

\* await toggleEventCompletion(todayKey, taskId, completed)
ToggleStep(k) ==
    /\ Settled
    /\ k \in DOMAIN calls
    /\ calls[k].pc = "toggle"
    /\ events' = toggleEventCompletion(events, calls[k].date, calls[k].id,
                                       calls[k].completed)
    /\ IF calls[k].completed
       THEN /\ calls' = [calls EXCEPT ![k].pc = "credit"]
            /\ UNCHANGED progress
       ELSE \* the continuation finds `completed` false and returns
            /\ calls' = RemoveAt(calls, k)
            /\ progress' = handleCredit(progress, calls[k].completed)
    /\ CommitData
    /\ UNCHANGED <<today, totalXP, leaderboard, fetchState, user, streak>>
    /\ UNCHANGED otherVars

CreditStep(k) ==
    /\ Settled
    /\ k \in DOMAIN calls
    /\ calls[k].pc = "credit"
    /\ progress' = handleCredit(progress, calls[k].completed)
    /\ calls' = RemoveAt(calls, k)
    /\ CommitData
    /\ UNCHANGED <<events, today, totalXP, leaderboard, fetchState,
                   user, streak>>
    /\ UNCHANGED otherVars

\* events[todayKey]?.find(t => t.id === taskId)
FindTask(ts, id) ==
    IF \E i \in DOMAIN ts : ts[i].id = id
    THEN LET i == CHOOSE j \in DOMAIN ts :
                    /\ ts[j].id = id
                    /\ \A m \in 1..(j - 1) : ts[m].id # id
         IN <<ts[i]>>
    ELSE <<>>

toggleEdit(i) ==
    /\ Settled
    /\ i \in DOMAIN events[viewDay]
    /\ LET id == events[viewDay][i].id
           found == FindTask(events[today], id)
       IN /\ found # <<>>
          /\ events' = updateEventEditing(events, today, id,
                                          ~found[1].isEditing)
    /\ CommitData
    /\ UNCHANGED <<progress, today, calls, totalXP, leaderboard,
                   fetchState, user, streak>>
    /\ UNCHANGED otherVars

\* EditInput onChange: updateEvent(todayKey, task.id, { title })
editTitle(i, title) ==
    /\ Settled
    /\ i \in DOMAIN events[viewDay]
    /\ events[viewDay][i].isEditing
    /\ events' = updateEventTitle(events, viewDay, events[viewDay][i].id,
                                  title)
    /\ CommitData
    /\ UNCHANGED <<progress, today, calls, totalXP, leaderboard,
                   fetchState, user, streak>>
    /\ UNCHANGED otherVars

deleteTask(i) ==
    /\ Settled
    /\ i \in DOMAIN events[viewDay]
    /\ events' = deleteEvent(events, today, events[viewDay][i].id)
    /\ CommitData
    /\ UNCHANGED <<progress, today, calls, totalXP, leaderboard,
                   fetchState, user, streak>>
    /\ UNCHANGED otherVars

----------------------------------------------------------------------------
(* Passive effects and the leaderboard fetch *)

\* useEffect(() => setTotalXP(calculateTotalXP()), [calculateTotalXP])
EffectTotalXP ==
    /\ "xp" \in pending
    /\ totalXP' = calculateTotalXP(progress, events, today)
    /\ pending' = IF totalXP' # totalXP THEN {"self"} ELSE {}
    /\ viewDay' = IF totalXP' # totalXP THEN today ELSE viewDay
    /\ UNCHANGED <<progress, events, today, calls, leaderboard,
                   fetchState, user, streak>>
    /\ UNCHANGED otherVars

\* useEffect(() => { if (user && !leaderboard.some(...)) setLeaderboard(...) },
\*           [user, totalXP, leaderboard])
EffectSelfEntry ==
    /\ pending = {"self"}
    /\ leaderboard' = upsertSelf(leaderboard, user, totalXP)
    /\ pending' = IF leaderboard' # leaderboard THEN {"self"} ELSE {}
    /\ viewDay' = IF leaderboard' # leaderboard THEN today ELSE viewDay
    /\ UNCHANGED <<progress, events, today, calls, totalXP, fetchState,
                   user, streak>>
    /\ UNCHANGED otherVars

\* fetchLeaderboard: setLeaderboard(await fakeFetchLeaderboardData())
fetchLeaderboard ==
    /\ Settled
    /\ fetchState = "pending"
    /\ leaderboard' = fakeFetchLeaderboardData
    /\ fetchState' = "done"
    /\ pending' = {"self"}
    /\ viewDay' = today
    /\ UNCHANGED <<progress, events, today, calls, totalXP, user, streak>>
    /\ UNCHANGED otherVars

\* catch (error) { console.error(...) }: the leaderboard state is not set
onFetchErrorCached(lb) == Append(lb, [name |-> "ann", xp |-> 0])

onFetchError(lb) == lb

\* fetchLeaderboard when the feed's promise rejects: the catch block logs the
\* error and the async function returns normally; no state is set, so there
\* is no commit
fetchLeaderboardFails ==
    /\ Settled
    /\ fetchState = "pending"
    /\ leaderboard' = onFetchError(leaderboard)
    /\ fetchState' = "failed"
    /\ UNCHANGED <<progress, events, today, viewDay, calls, totalXP,
                   pending, user, streak>>
    /\ UNCHANGED otherVars

----------------------------------------------------------------------------
(* The Dashboard specification *)

Init ==
    /\ InitDash
    /\ InitAux
    /\ ranked = <<>>
    /\ session = NoSession
    /\ wheelStore = [d \in Days |-> FALSE]

Next ==
    \/ DayChange
    \/ \E c \in HabitCats, d \in Deltas : addPoints(c, d)
    \/ \E n \in 1..MaxClock, t \in Titles : handleKeyPress(n, t)
    \/ \E i \in 1..MaxTasks : TaskCheckboxClick(i)
    \/ \E k \in 1..MaxCalls : ToggleStep(k)
    \/ \E k \in 1..MaxCalls : CreditStep(k)
    \/ \E i \in 1..MaxTasks : toggleEdit(i)
    \/ \E i \in 1..MaxTasks, t \in Titles : editTitle(i, t)
    \/ \E i \in 1..MaxTasks : deleteTask(i)
    \/ EffectTotalXP
    \/ EffectSelfEntry
    \/ fetchLeaderboard
    \/ fetchLeaderboardFails

Spec == Init /\ [][Next]_vars

----------------------------------------------------------------------------
(* The task list alone, with several handleTaskCompletion calls in flight  *)

MaxClicks == 2

TaskCheckboxClicks(i) == TaskCheckboxClickUpTo(i, MaxClicks)

NextClicks ==
    \/ \E n \in 1..MaxClock, t \in Titles : handleKeyPress(n, t)
    \/ \E i \in 1..MaxTasks : TaskCheckboxClicks(i)
    \/ \E k \in 1..MaxClicks : ToggleStep(k)
    \/ \E k \in 1..MaxClicks : CreditStep(k)
    \/ EffectTotalXP
    \/ EffectSelfEntry
    \/ fetchLeaderboard

SpecClicks == Init /\ [][NextClicks]_vars

----------------------------------------------------------------------------
(* Ranking a leaderboard: the pure function of Dashboard.js:641 on bounded  *)
(* inputs                                                                  *)

MaxBoard == 3
BoardNames == {"ann", "bob", Me}
BoardXPs == {0, 10}
BoardEntries == [name : BoardNames, xp : BoardXPs]

Boards == UNION {[1..n -> BoardEntries] : n \in 0..MaxBoard}

InitSort ==
    /\ leaderboard \in Boards
    /\ ranked = <<>>
    /\ progress = InitLedger
    /\ events = [d \in Days |-> <<>>]
    /\ today = 1
    /\ viewDay = 1
    /\ calls = <<>>
    /\ totalXP = calculateTotalXP(progress, events, today)
    /\ fetchState = "done"
    /\ pending = {}
    /\ user = Me
    /\ streak = 0
    /\ session = NoSession
    /\ wheelStore = [d \in Days |-> FALSE]
    /\ InitAux

\* a render: const sortedLeaderboard = [...leaderboard].sort(...)
Rank ==
    /\ ranked' = sortedLeaderboard(leaderboard)
    /\ UNCHANGED <<dashVars, wheelVars, auxVars>>

NextSort == Rank

SpecSort == InitSort /\ [][NextSort]_vars

----------------------------------------------------------------------------
(* Evaluating the achievements: the pure derivation of Dashboard.js:592-597 *)
(* on bounded inputs                                                       *)

MaxStreak == 9

AchLedgers ==
    { [c \in HabitCats |-> 0],
      InitLedger,
      [c \in Cats |-> IF c = "fitness" THEN 90
                      ELSE IF c = "tasks" THEN 10 ELSE 0] }

AchEvents ==
    { [d \in Days |-> <<>>],
      [d \in Days |-> IF d = 1 THEN <<NewTask(1, "a")>> ELSE <<>>],
      [d \in Days |-> IF d = 1
                      THEN <<[NewTask(1, "a") EXCEPT !.completed = TRUE]>>
                      ELSE <<>>] }

InitAch ==
    /\ streak \in 0..MaxStreak
    /\ progress \in AchLedgers
    /\ events \in AchEvents
    /\ today = 1
    /\ viewDay = 1
    /\ calls = <<>>
    /\ totalXP = calculateTotalXP(progress, events, today)
    /\ leaderboard = <<>>
    /\ fetchState = "done"
    /\ pending = {}
    /\ user = Me
    /\ ranked = <<>>
    /\ session = NoSession
    /\ wheelStore = [d \in Days |-> FALSE]
    /\ InitAux

\* a render: const achievements = [{ ..., earned: streak >= 7 }, ...]
evaluate ==
    /\ achievements' = [a \in AchievementIds |-> Earned(a)]
    /\ UNCHANGED <<dashVars, ranked, wheelVars, store, response>>

NextAch == evaluate

SpecAch == InitAch /\ [][NextAch]_vars

----------------------------------------------------------------------------
(* The storage API: the express router over the LocalData collection       *)

NoHeader == ""
Headers == {NoHeader, "anonymous", "u1"}
Keys == {"streak", "ledger"}
Null == "null"
Values == {Null, "v1", "v2"}

\* const userId = req.headers['x-user-id'] || 'anonymous'
userIdOf(h) == IF h = NoHeader THEN "anonymous" ELSE h

\* the filter { userId, key }
matchesKeyOnly(doc, u, k) == doc.key = k

matches(doc, u, k) == doc.userId = u /\ doc.key = k

\* LocalData.findOne(filter): a matching document, or none
findOne(st, u, k) ==
    IF \E doc \in st : matches(doc, u, k)
    THEN {CHOOSE doc \in st : matches(doc, u, k)}
    ELSE {}

\* LocalData.findOneAndUpdate(filter, doc, { upsert: true }): the matching
\* document is updated, or the document is inserted
findOneAndUpdate(st, u, k, v) ==
    (st \ findOne(st, u, k)) \cup {[userId |-> u, key |-> k, value |-> v]}

\* LocalData.deleteOne(filter)
deleteOne(st, u, k) == st \ findOne(st, u, k)

\* LocalData.getAllForUser(userId): the user's keys with their values
getAllForUser(st, u) ==
    LET docs == {doc \in st : doc.userId = u}
    IN [k \in {doc.key : doc \in docs} |->
           (CHOOSE doc \in docs : doc.key = k).value]

Failed(msg) == [status |-> 500, success |-> FALSE, error |-> msg]

storeFrame == UNCHANGED <<dashVars, ranked, wheelVars, achievements>>

\* router.post('/:key'); dbOk is whether the database call succeeds
post(h, k, v, dbOk) ==
    /\ IF dbOk
       THEN /\ store' = findOneAndUpdate(store, userIdOf(h), k, v)
            /\ response' = [status |-> 200, success |-> TRUE]
       ELSE /\ store' = store
            /\ response' = Failed("Failed to save data")
    /\ storeFrame

\* router.get('/:key')
get(h, k, dbOk) ==
    /\ IF dbOk
       THEN LET data == findOne(store, userIdOf(h), k)
            IN response' = [status |-> 200, success |-> TRUE,
                            value |-> IF data # {}
                                      THEN (CHOOSE doc \in data : TRUE).value
                                      ELSE Null]
       ELSE response' = Failed("Failed to get data")
    /\ store' = store
    /\ storeFrame

\* router.get('/')
getAll(h, dbOk) ==
    /\ IF dbOk
       THEN response' = [status |-> 200, success |-> TRUE,
                         data |-> getAllForUser(store, userIdOf(h))]
       ELSE response' = Failed("Failed to get all data")
    /\ store' = store
    /\ storeFrame

\* router.delete('/:key')
delete(h, k, dbOk) ==
    /\ IF dbOk
       THEN /\ store' = deleteOne(store, userIdOf(h), k)
            /\ response' = [status |-> 200, success |-> TRUE]
       ELSE /\ store' = store
            /\ response' = Failed("Failed to delete data")
    /\ storeFrame

InitStore ==
    /\ InitAux
    /\ progress = InitLedger
    /\ events = [d \in Days |-> <<>>]
    /\ today = 1
    /\ viewDay = 1
    /\ calls = <<>>
    /\ totalXP = calculateTotalXP(progress, events, today)
    /\ leaderboard = <<>>
    /\ fetchState = "done"
    /\ pending = {}
    /\ user = Me
    /\ streak = 0
    /\ ranked = <<>>
    /\ session = NoSession
    /\ wheelStore = [d \in Days |-> FALSE]

NextStore ==
    \/ \E h \in Headers, k \in Keys, v \in Values, dbOk \in BOOLEAN :
          post(h, k, v, dbOk)
    \/ \E h \in Headers, k \in Keys, dbOk \in BOOLEAN : get(h, k, dbOk)
    \/ \E h \in Headers, dbOk \in BOOLEAN : getAll(h, dbOk)
    \/ \E h \in Headers, k \in Keys, dbOk \in BOOLEAN : delete(h, k, dbOk)

SpecStore == InitStore /\ [][NextStore]_vars

----------------------------------------------------------------------------
(* Quiz Engine and Reward Wheel (HabitQuizGame, SpinWheelPopup)            *)

QuizXP == 10
LastRound == 2

\* the wheel: an ordered sequence of weighted segments
Segments ==
    << [label |-> "A", rewardValue |-> 10, weight |-> 1],
       [label |-> "B", rewardValue |-> 20, weight |-> 2] >>

RECURSIVE cumulativeWeight(_)
cumulativeWeight(k) ==
    IF k = 0 THEN 0 ELSE cumulativeWeight(k - 1) + Segments[k].weight

totalWeight == cumulativeWeight(Len(Segments))

\* the first segment whose cumulative upper bound exceeds r
selectSegment(r) ==
    Segments[CHOOSE k \in DOMAIN Segments :
                /\ cumulativeWeight(k) > r
                /\ \A j \in 1..(k - 1) : cumulativeWeight(j) <= r]

MaxReward ==
    LET vs == {Segments[k].rewardValue : k \in DOMAIN Segments}
    IN CHOOSE m \in vs : \A v \in vs : v <= m

canSpinRoundOnly(s) == ~s.wheelShownThisRound

canSpin(s) == ~s.wheelShownThisRound /\ ~s.wheelShownToday

InSession == session.state \in {"AwaitingAnswer", "RoundComplete", "SpinEligible"}

InitWheel ==
    /\ session = NoSession
    /\ wheelStore = [d \in Days |-> FALSE]
    /\ progress = InitLedger
    /\ events = [d \in Days |-> <<>>]
    /\ today = 1
    /\ viewDay = 1
    /\ calls = <<>>
    /\ totalXP = calculateTotalXP(progress, events, today)
    /\ leaderboard = <<>>
    /\ fetchState = "done"
    /\ pending = {}
    /\ user = Me
    /\ streak = 0
    /\ ranked = <<>>
    /\ InitAux

quizFrame ==
    UNCHANGED <<events, today, viewDay, calls, totalXP, leaderboard,
                fetchState, pending, user, streak, ranked, achievements,
                store, response>>

\* a new playthrough: wheelShownToday is read back from the store
startSession ==
    /\ ~InSession
    /\ progressXP(progress) + (LastRound + 1) * QuizXP + MaxReward <= MaxXP
    /\ session' = [state |-> "AwaitingAnswer", roundIndex |-> 0,
                   wheelShownThisRound |-> FALSE,
                   wheelShownToday |-> wheelStore[today]]
    /\ UNCHANGED <<progress, wheelStore>>
    /\ quizFrame

\* the round's question is scored on submission
submitAnswer(correct) ==
    /\ session.state = "AwaitingAnswer"
    /\ progress' = IF correct THEN updateProgress(progress, "quiz", QuizXP)
                   ELSE progress
    /\ session' = [session EXCEPT !.state = "RoundComplete"]
    /\ UNCHANGED wheelStore
    /\ quizFrame

\* RoundComplete -> SpinEligible is unconditional
roundComplete ==
    /\ session.state = "RoundComplete"
    /\ session' = [session EXCEPT !.state = "SpinEligible"]
    /\ UNCHANGED <<progress, wheelStore>>
    /\ quizFrame

\* the wheel fires: both flags are set, the day's flag is persisted and the
\* selected segment's reward is credited under "wheel"
spin(r) ==
    /\ session.state = "SpinEligible"
    /\ canSpin(session)
    /\ session' = [session EXCEPT !.wheelShownThisRound = TRUE,
                                  !.wheelShownToday = TRUE]
    /\ wheelStore' = [wheelStore EXCEPT ![today] = TRUE]
    /\ progress' = updateProgress(progress, "wheel",
                                  selectSegment(r).rewardValue)
    /\ quizFrame

\* SpinEligible(round) -> AwaitingAnswer(round + 1), or SessionComplete
\* after round 2
advanceEarly(s) ==
    IF s.roundIndex >= LastRound - 1
    THEN [s EXCEPT !.state = "SessionComplete"]
    ELSE [s EXCEPT !.state = "AwaitingAnswer", !.roundIndex = @ + 1,
                   !.wheelShownThisRound = FALSE]

advance(s) ==
    IF s.roundIndex = LastRound
    THEN [s EXCEPT !.state = "SessionComplete"]
    ELSE [s EXCEPT !.state = "AwaitingAnswer", !.roundIndex = @ + 1,
                   !.wheelShownThisRound = FALSE]

\* after the spin resolved, or when the wheel is not eligible
nextRound ==
    /\ session.state = "SpinEligible"
    /\ ~canSpin(session)
    /\ session' = advance(session)
    /\ UNCHANGED <<progress, wheelStore>>
    /\ quizFrame

\* abandoning a session discards its in-memory state
abandon ==
    /\ InSession
    /\ session' = NoSession
    /\ UNCHANGED <<progress, wheelStore>>
    /\ quizFrame

NextWheel ==
    \/ DayChange
    \/ startSession
    \/ \E correct \in BOOLEAN : submitAnswer(correct)
    \/ roundComplete
    \/ \E r \in 0..(totalWeight - 1) : spin(r)
    \/ nextRound
    \/ abandon

SpecWheel == InitWheel /\ [][NextWheel]_vars

----------------------------------------------------------------------------
(* Properties *)

EntryOf(lb, name) == lb[CHOOSE i \in DOMAIN lb : lb[i].name = name]

\* C1: in every reachable state totalXP() equals the sum of all category
\* points plus 10 times the number of completed tasks over ALL date-keys.
C1_TotalXPAllDates ==
    calculateTotalXP(progress, events, today)
        = progressXP(progress) + 10 * CompletedAllDays(events, Days)

\* C2: the toggle step of handleTaskCompletion sets the completed flag of the
\* task and credits nothing itself; an un-completion (completed = false)
\* leaves the whole ledger unchanged, and the credit that follows a completion
\* raises category "tasks" by exactly 10 and no other category.
C2_ToggleCredits ==
    [][\A k \in DOMAIN calls :
         /\ ToggleStep(k) =>
              /\ \A i \in DOMAIN events[calls[k].date] :
                    events[calls[k].date][i].id = calls[k].id
                      => events'[calls[k].date][i].completed
                            = calls[k].completed
              /\ progress' = progress
              /\ IF calls[k].completed
                 THEN calls' = [calls EXCEPT ![k].pc = "credit"]
                 ELSE Len(calls') = Len(calls) - 1
         /\ CreditStep(k) =>
              /\ calls[k].completed
              /\ Get(progress', "tasks") = Get(progress, "tasks") + 10
              /\ \A c \in Cats \ {"tasks"} :
                    Get(progress', c) = Get(progress, c)]_vars

C2_Witness ==
    /\ Settled
    /\ calls = <<>>
    /\ Get(progress, "tasks") = 10
    /\ Len(events[today]) = 1
    /\ ~events[today][1].completed
    /\ CompletedAllDays(events, Days) = 0

\* C3: no step decreases the points of any ledger category.
C3_LedgerMonotonic ==
    [][\A c \in Cats : Get(progress', c) >= Get(progress, c)]_vars

C3_Witness ==
    /\ Settled
    /\ calls = <<>>
    /\ Get(progress, "tasks") >= 10
    /\ TaskTotal(events, Days) = 0

\* C5: when the leaderboard fetch resolves, every entry that was in the
\* leaderboard before the response is applied is still there afterwards.
C5_NoStaleOverwrite ==
    [][(fetchState = "pending" /\ fetchState' = "done")
          => \A i \in DOMAIN leaderboard :
                \E j \in DOMAIN leaderboard' :
                    leaderboard'[j] = leaderboard[i]]_vars

\* C6: the self-entry effect appends {name, xp: totalXP} when the user has no
\* entry and otherwise leaves the leaderboard as it is; apart from the fetch
\* response, no step changes the leaderboard in any other way, so an existing
\* entry keeps the xp it was inserted with.
C6_UpsertSelfInsertsOnce ==
    [][/\ (EffectSelfEntry /\ user # NoUser /\ ~HasEntry(leaderboard, user))
            => leaderboard' = Append(leaderboard,
                                     [name |-> user, xp |-> totalXP])
       /\ (leaderboard' # leaderboard /\ fetchState' = fetchState)
            => /\ user # NoUser
               /\ ~HasEntry(leaderboard, user)
               /\ SubSeq(leaderboard', 1, Len(leaderboard)) = leaderboard
               /\ Len(leaderboard') = Len(leaderboard) + 1]_vars

C6_Witness ==
    /\ Settled
    /\ fetchState = "done"
    /\ HasEntry(leaderboard, Me)
    /\ EntryOf(leaderboard, Me).xp # totalXP

\* C7: whenever the current user has a leaderboard entry and no effect is
\* pending, that entry's xp equals the user's current totalXP.
C7_SelfEntryInSync ==
    (Settled /\ user # NoUser /\ HasEntry(leaderboard, user))
        => EntryOf(leaderboard, user).xp = totalXP

C10_HabitMasterNonzero ==
    Earned(3) <=> habitMasterNonzero(progress)

\* a stable descending ranking r of the list lb
IsStableRanking(r, lb) ==
    /\ Len(r) = Len(lb)
    /\ \A i \in 1..(Len(r) - 1) : r[i].xp >= r[i + 1].xp
    /\ \E f \in [DOMAIN r -> DOMAIN lb] :
          /\ \A i, j \in DOMAIN r : i # j => f[i] # f[j]
          /\ \A i \in DOMAIN r : r[i] = lb[f[i]]
          /\ \A i, j \in DOMAIN r :
                (i < j /\ r[i].xp = r[j].xp) => f[i] < f[j]

\* C8: ranking returns a permutation of the leaderboard entries, sorted by xp
\* descending, with entries of equal xp in their original relative order, and
\* leaves the leaderboard itself unchanged.
C8_RankedStableDescending ==
    [][Rank => /\ leaderboard' = leaderboard
               /\ IsStableRanking(ranked', leaderboard)]_vars

C8_Witness ==
    /\ Len(ranked) >= 3
    /\ ranked # leaderboard
    /\ \E i, j \in DOMAIN ranked :
          /\ i < j
          /\ ranked[i].xp = ranked[j].xp
          /\ ranked[i].name # ranked[j].name

\* C11: "First Week Streak" is earned exactly when the streak counter is at
\* least 7 (earned for 7 and above, not earned for 6 and below), whatever the
\* XP and the tasks are.
C11_FirstWeekAtSeven ==
    [][evaluate => /\ achievements'[1] <=> (streak >= 7)
                   /\ streak = 7 => achievements'[1]
                   /\ streak = 6 => ~achievements'[1]]_vars

C11_Witness ==
    /\ streak = 7
    /\ achievements[1]
    /\ totalXP = 0
    /\ ~achievements[2]

\* the scenario of C12: the ledger holds fitness: 50 and nothing else, and one
\* task of today's list is completed
LedgerFiftyOneDone ==
    /\ Settled
    /\ Get(progress, "fitness") = 50
    /\ progressXP(progress) = 50
    /\ CompletedCount(events[today]) = 1

\* C12: totalXP is never negative, the level is floor(totalXP / 100) + 1 and
\* the level progress is totalXP mod 100, so that totalXP = (level - 1) * 100
\* + levelProgress with 0 <= levelProgress < 100 and level >= 1; with ledger
\* {fitness: 50} and one completed task today, totalXP = 60, level = 1 and
\* levelProgress = 60.
C12_LevelFromTotalXP ==
    /\ totalXP >= 0
    /\ totalXP = (currentLevel - 1) * 100 + levelProgress
    /\ levelProgress >= 0
    /\ levelProgress < 100
    /\ currentLevel >= 1
    /\ \A n \in 1..3 : (totalXP >= (n - 1) * 100 /\ totalXP < n * 100)
                           => currentLevel = n
    /\ LedgerFiftyOneDone
          => (totalXP = 60 /\ currentLevel = 1 /\ levelProgress = 60)

C12_Witness ==
    /\ LedgerFiftyOneDone
    /\ totalXP = 60
    /\ currentLevel = 1
    /\ levelProgress = 60

\* C13: deleting a task removes that task from its date's list and changes
\* nothing else: the other tasks of that date and of the other dates, every
\* ledger category and the streak stay as they were, also when the deleted
\* task was completed.
C13_DeleteRemovesOnlyThatTask ==
    [][\A i \in 1..MaxTasks :
         deleteTask(i) =>
            /\ events'[viewDay] = RemoveAt(events[viewDay], i)
            /\ \A d \in Days \ {viewDay} : events'[d] = events[d]
            /\ progress' = progress
            /\ streak' = streak]_vars

\* the tasks stored under each date-key have pairwise distinct ids
DistinctIds(ev) ==
    \A d \in Days : \A i, j \in DOMAIN ev[d] :
        i # j => ev[d][i].id # ev[d][j].id

\* C14: adding a task appends a task with completed = false to the date's
\* list, and after any sequence of additions (two of them within the same
\* millisecond included) the tasks under a date-key have pairwise distinct ids.
C14_AddTaskDistinctIds ==
    [][\A n \in 1..MaxClock, t \in Titles :
         handleKeyPress(n, t) =>
            /\ Len(events'[today]) = Len(events[today]) + 1
            /\ SubSeq(events'[today], 1, Len(events[today])) = events[today]
            /\ ~events'[today][Len(events'[today])].completed
            /\ events'[today][Len(events'[today])].title = t
            /\ DistinctIds(events')]_vars

\* C15: a failed feed fetch is caught: the fetch ends as failed, the
\* leaderboard holds no feed entry afterwards (at most the user's own entry),
\* and the ledger, the task store, the streak and totalXP are unchanged.
C15_FetchFailureCaught ==
    [][fetchLeaderboardFails =>
         /\ fetchState' = "failed"
         /\ \A i \in DOMAIN leaderboard' : leaderboard'[i].name = user
         /\ Len(leaderboard') <= 1
         /\ progress' = progress
         /\ events' = events
         /\ streak' = streak
         /\ totalXP' = totalXP
         /\ pending' = pending]_vars

C15_Witness ==
    /\ fetchState = "failed"
    /\ user = Me
    /\ Settled
    /\ Len(leaderboard) = 1
    /\ leaderboard[1].name = Me
    /\ Len(events[today]) = 1

\* the user ids the router can derive
UserIds == {userIdOf(h) : h \in Headers}

Unset == "unset"

\* what is stored for the pair (u, k): its value, or Unset
Stored(st, u, k) ==
    LET docs == {doc \in st : doc.userId = u /\ doc.key = k}
    IN IF docs = {} THEN Unset ELSE (CHOOSE doc \in docs : TRUE).value

OtherPairsKept(st, st2, u, k) ==
    \A u2 \in UserIds, k2 \in Keys :
        (u2 # u \/ k2 # k) => Stored(st2, u2, k2) = Stored(st, u2, k2)

\* C16: the store is a per-user key/value map.  A successful set(u, k, v)
\* makes v the value of (u, k) and a successful delete unsets it, both
\* leaving every other (user, key) pair as it was, the same key under another
\* user id included; get(u, k) answers the value of the pair, null when it
\* is unset, and listAll(u) answers exactly the keys set for u with their
\* values; get and listAll change nothing; no pair is ever stored twice.
C16_StoreIsPerUserMap ==
    [][\A h \in Headers, k \in Keys :
         LET u == userIdOf(h) IN
         /\ \A v \in Values :
               post(h, k, v, TRUE) => /\ Stored(store', u, k) = v
                                      /\ OtherPairsKept(store, store', u, k)
         /\ delete(h, k, TRUE) => /\ Stored(store', u, k) = Unset
                                  /\ OtherPairsKept(store, store', u, k)
         /\ get(h, k, TRUE) =>
               /\ response'.value = IF Stored(store, u, k) = Unset THEN Null
                                     ELSE Stored(store, u, k)
               /\ store' = store
         /\ getAll(h, TRUE) =>
               /\ DOMAIN response'.data
                     = {k2 \in Keys : Stored(store, u, k2) # Unset}
               /\ \A k2 \in DOMAIN response'.data :
                     response'.data[k2] = Stored(store, u, k2)
               /\ store' = store
         /\ Cardinality({doc \in store' : doc.userId = u /\ doc.key = k})
               <= 1]_vars

C16_Witness ==
    /\ Stored(store, "u1", "streak") = "v1"
    /\ Stored(store, "anonymous", "streak") = "v2"
    /\ Stored(store, "u1", "ledger") = Unset
    /\ response = [status |-> 200, success |-> TRUE, value |-> "v1"]

\* C17: a quiz session moves AwaitingAnswer(r) -> RoundComplete(r) ->
\* SpinEligible(r) -> AwaitingAnswer(r + 1) through the rounds 0, 1, 2 in
\* that order, never skipping or repeating a round, and becomes
\* SessionComplete only from SpinEligible(2), after the spin resolved or was
\* skipped as ineligible; a correct answer credits exactly 10 XP to category
\* "quiz" and nothing else, an incorrect answer credits nothing, and
\* abandoning the session leaves the ledger as it is.
C17_QuizRounds ==
    [][/\ session.roundIndex \in 0..2
       /\ (session'.state # session.state) =>
            \/ /\ session'.state = "AwaitingAnswer"
               /\ session.state \in {"none", "SessionComplete"}
               /\ session'.roundIndex = 0
            \/ /\ session'.state = "RoundComplete"
               /\ session.state = "AwaitingAnswer"
               /\ session'.roundIndex = session.roundIndex
            \/ /\ session'.state = "SpinEligible"
               /\ session.state = "RoundComplete"
               /\ session'.roundIndex = session.roundIndex
            \/ /\ session'.state = "AwaitingAnswer"
               /\ session.state = "SpinEligible"
               /\ session.roundIndex < 2
               /\ session'.roundIndex = session.roundIndex + 1
               /\ ~canSpin(session)
            \/ /\ session'.state = "SessionComplete"
               /\ session.state = "SpinEligible"
               /\ session.roundIndex = 2
               /\ session'.roundIndex = 2
               /\ ~canSpin(session)
            \/ /\ session'.state = "none"
               /\ InSession
               /\ progress' = progress
       /\ (session'.state = session.state)
            => session'.roundIndex = session.roundIndex
       /\ submitAnswer(TRUE) =>
            /\ Get(progress', "quiz") = Get(progress, "quiz") + 10
            /\ \A c \in DOMAIN progress' \ {"quiz"} :
                  Get(progress', c) = Get(progress, c)
       /\ submitAnswer(FALSE) => progress' = progress
       /\ Get(progress', "quiz") # Get(progress, "quiz")
            => session.state = "AwaitingAnswer"]_vars

C17_Witness ==
    /\ session.state = "SessionComplete"
    /\ session.roundIndex = 2
    /\ Get(progress, "quiz") = 20
    /\ Get(progress, "wheel") > 0

\* a session abandoned in round 1 after a correct answer keeps its 10 XP
C17_WitnessAbandoned ==
    /\ session.state = "none"
    /\ Get(progress, "quiz") = 10
    /\ Get(progress, "wheel") = 0

\* the list ts2 is ts with task i replaced by t and every other task kept
OnlyTaskChanged(ts, ts2, i, t) ==
    /\ Len(ts2) = Len(ts)
    /\ ts2[i] = t
    /\ \A j \in DOMAIN ts : j # i => ts2[j] = ts[j]

\* C18: an update of a task merges the patch (the title, the editing flag)
\* into that task and leaves its other fields, the other tasks of the date,
\* the other dates and the ledger unchanged.
C18_UpdateOnlyThatTask ==
    [][\A i \in 1..MaxTasks :
         /\ toggleEdit(i) =>
               /\ OnlyTaskChanged(events[viewDay], events'[viewDay], i,
                     [events[viewDay][i] EXCEPT !.isEditing = ~@])
               /\ \A d \in Days \ {viewDay} : events'[d] = events[d]
               /\ progress' = progress
         /\ \A t \in Titles :
               editTitle(i, t) =>
                 /\ OnlyTaskChanged(events[viewDay], events'[viewDay], i,
                       [events[viewDay][i] EXCEPT !.title = t])
                 /\ \A d \in Days \ {viewDay} : events'[d] = events[d]
                 /\ progress' = progress]_vars

\* the number of stored completed flags that are false in ev and true in ev2
RECURSIVE Completions(_, _, _)
Completions(ev, ev2, D) ==
    IF D = {} THEN 0
    ELSE LET d == CHOOSE x \in D : TRUE
         IN Cardinality({i \in DOMAIN ev[d] :
                           ~ev[d][i].completed /\ ev2[d][i].completed})
            + Completions(ev, ev2, D \ {d})

\* C19: under every interleaving of clicks, toggle and credit steps and
\* re-renders there are as many 10-XP credits to "tasks" as changes of a
\* stored completed flag from false to true: a toggle step hands its call on
\* to the credit step exactly when it changed one stored flag from false to
\* true, and otherwise changes no flag to true; so two clicks handled against
\* the same render of a task credit the ledger once.
C19_CreditPerCompletion ==
    [][\A k \in DOMAIN calls :
         ToggleStep(k) =>
            IF k \in DOMAIN calls' /\ calls'[k].pc = "credit"
                 /\ Len(calls') = Len(calls)
            THEN Completions(events, events', Days) = 1
            ELSE Completions(events, events', Days) = 0]_vars

\* the number of leaderboard entries that carry the user's name
SelfEntries == Cardinality({i \in DOMAIN leaderboard :
                              leaderboard[i].name = user})

\* C20: in every reachable state the leaderboard holds at most one entry with
\* the current user's name, and exactly one once the fetch has resolved and
\* no effect is pending with a logged-in user.
C20_OneSelfEntry ==
    /\ SelfEntries <= 1
    /\ (user # NoUser /\ Settled /\ fetchState # "pending")
          => SelfEntries = 1

C20_Witness ==
    /\ user = Me
    /\ Settled
    /\ fetchState = "done"
    /\ calls = <<>>
    /\ totalXP >= 110
    /\ SelfEntries = 1
    /\ Len(leaderboard) = 1

\* C4: the wheel fires only when canSpin holds, i.e. when neither flag is
\* set, and only on a day with no recorded spin; the spin sets both flags and
\* persists the day's flag; and on a day with a recorded spin canSpin is false
\* in every round and every session until the day changes.
C4_WheelOncePerDay ==
    [][/\ \A r \in 0..(totalWeight - 1) :
            spin(r) => /\ ~session.wheelShownThisRound
                       /\ ~session.wheelShownToday
                       /\ ~wheelStore[today]
                       /\ session'.wheelShownThisRound
                       /\ session'.wheelShownToday
                       /\ wheelStore'[today]
       /\ (wheelStore[today] /\ today' = today /\ session'.state # "none")
            => (session'.wheelShownThisRound \/ session'.wheelShownToday)
       /\ \A d \in Days : wheelStore[d] => wheelStore'[d]]_vars

C4_Witness ==
    /\ session.state = "AwaitingAnswer"
    /\ session.roundIndex = 0
    /\ ~session.wheelShownThisRound
    /\ session.wheelShownToday
    /\ wheelStore[today]
    /\ today = 1
    /\ Get(progress, "wheel") > 0

====
